---- MODULE Spec2Model ----
(***************************************************************************)
(* A model of tranco-rs (src/src/lib.rs): the Tranco API client.  The      *)
(* client is stateless; each operation is one request/response exchange    *)
(* followed by a pure decoding step.  Text is modelled as a sequence of    *)
(* one-character strings, unsigned integers as little-endian sequences of  *)
(* 16-bit limbs (u32 = 2 limbs, u64 = 4 limbs), so that 64-bit parsing,    *)
(* formatting and the `as u32` cast keep their width.                      *)
(***************************************************************************)
EXTENDS Integers, Sequences, FiniteSets, TLC

\* op: the operation called; arg: its arguments and what the transport and
\* the service answer; req: the URL of the GET it issued; ret: what it returned.
VARIABLES op, arg, req, ret

vars == <<op, arg, req, ret>>

(***************************************************************************)
(* Bounds of the explored inputs.                                          *)
(***************************************************************************)
MaxBody == 6
MaxDomain == 2
MaxStr == 3
MaxMonth == 6

(***************************************************************************)
(* Machine integers.                                                       *)
(***************************************************************************)
LimbBase == 2^16
LimbMax == LimbBase - 1
U32Limbs == 2
U64Limbs == 4

Digits == <<"0", "1", "2", "3", "4", "5", "6", "7", "8", "9">>

DigitSet == {Digits[i] : i \in 1..10}

DigitVal(c) == (CHOOSE i \in 1..10 : Digits[i] = c) - 1

ZeroLimbs(w) == [i \in 1..w |-> 0]

IsZero(v) == \A i \in 1..Len(v) : v[i] = 0

\* v * m + c over limbs; the result has one extra top limb, the carry out.
RECURSIVE MulAdd(_, _, _)
MulAdd(v, m, c) ==
    IF v = <<>> THEN <<c>>
    ELSE LET t == Head(v) * m + c
         IN  <<t % LimbBase>> \o MulAdd(Tail(v), m, t \div LimbBase)

\* v divided by ten, the top limb first: quotient limbs and remainder.
RECURSIVE DivRem10(_, _)
DivRem10(v, rem) ==
    IF v = <<>> THEN [q |-> <<>>, r |-> rem]
    ELSE LET n == Len(v)
             cur == rem * LimbBase + v[n]
             lower == DivRem10(SubSeq(v, 1, n - 1), cur % 10)
         IN  [q |-> Append(lower.q, cur \div 10), r |-> lower.r]

\* Display of an unsigned integer: decimal, no sign, no leading zeros.
RECURSIVE ToDecimal(_)
ToDecimal(v) ==
    LET d == DivRem10(v, 0)
    IN  IF IsZero(d.q) THEN <<Digits[d.r + 1]>>
        ELSE Append(ToDecimal(d.q), Digits[d.r + 1])

\* The digit loop of str::parse for an unsigned integer of w limbs.
RECURSIVE ParseDigits(_, _)
ParseDigits(s, acc) ==
    IF s = <<>> THEN [ok |-> TRUE, val |-> acc, kind |-> "None"]
    ELSE IF Head(s) \notin DigitSet
         THEN [ok |-> FALSE, val |-> acc, kind |-> "InvalidDigit"]
         ELSE LET m == MulAdd(acc, 10, DigitVal(Head(s)))
                  w == Len(acc)
              IN  IF m[w + 1] # 0
                  THEN [ok |-> FALSE, val |-> acc, kind |-> "PosOverflow"]
                  ELSE ParseDigits(Tail(s), SubSeq(m, 1, w))

\* str::parse::<uN>(): empty input, a lone sign, an optional leading "+".
ParseUnsigned(s, w) ==
    IF s = <<>> THEN [ok |-> FALSE, val |-> ZeroLimbs(w), kind |-> "Empty"]
    ELSE IF Len(s) = 1 /\ Head(s) \in {"+", "-"}
         THEN [ok |-> FALSE, val |-> ZeroLimbs(w), kind |-> "InvalidDigit"]
         ELSE ParseDigits(IF Head(s) = "+" THEN Tail(s) ELSE s, ZeroLimbs(w))

\* `value as u32`: the low 32 bits.
AsU32(v) == SubSeq(v, 1, U32Limbs)

(***************************************************************************)
(* Results.                                                                *)
(***************************************************************************)
NoResult == [tag |-> "None", val |-> <<>>, err |-> "None", detail |-> "None"]

Ok(v) == [tag |-> "Ok", val |-> v, err |-> "None", detail |-> "None"]

Err(e, d) == [tag |-> "Err", val |-> <<>>, err |-> e, detail |-> d]


(***************************************************************************)
(* download_list: the CSV body.                                            *)
(***************************************************************************)
NL == "\n"
CR == "\r"
Comma == ","
\* A byte that occurs in no valid UTF-8 text.
BadByte == "xFF"

\* Index of the first element of s equal to c, 0 when there is none.
IndexOf(s, c) ==
    IF \E i \in 1..Len(s) : s[i] = c
    THEN CHOOSE i \in 1..Len(s) : s[i] = c /\ \A j \in 1..(i - 1) : s[j] # c
    ELSE 0

\* str::split(","): the pieces between the commas, empty pieces included.
RECURSIVE Split(_)
Split(s) ==
    LET i == IndexOf(s, Comma)
    IN  IF i = 0 THEN <<s>>
        ELSE <<SubSeq(s, 1, i - 1)>> \o Split(SubSeq(s, i + 1, Len(s)))

\* Mutant: the domain is everything after the first comma.
ParseLine_RestAsDomain(line) ==
    LET toks == Split(line)
        i == IndexOf(line, Comma)
        p == ParseUnsigned(toks[1], U64Limbs)
    IN  IF ~p.ok THEN Err("InvalidRank", p.kind)
        ELSE IF Len(toks) < 2 THEN Err("MissingDomain", "None")
        ELSE Ok([rank |-> p.val, domain |-> SubSeq(line, i + 1, Len(line))])

\* Mutant: a missing second token is taken as an empty domain.
ParseLine_DefaultDomain(line) ==
    LET toks == Split(line)
        p == ParseUnsigned(toks[1], U64Limbs)
    IN  IF ~p.ok THEN Err("InvalidRank", p.kind)
        ELSE Ok([rank |-> p.val,
                 domain |-> IF Len(toks) < 2 THEN <<>> ELSE toks[2]])

\* The closure mapped over the lines: toks.next() twice.
ParseLine(line) ==
    LET toks == Split(line)
    IN  IF Len(toks) < 1 THEN Err("MissingRank", "None")
        ELSE LET p == ParseUnsigned(toks[1], U64Limbs)
             IN  IF ~p.ok THEN Err("InvalidRank", p.kind)
                 ELSE IF Len(toks) < 2 THEN Err("MissingDomain", "None")
                 ELSE Ok([rank |-> p.val, domain |-> toks[2]])

\* BufRead::read_line: the bytes up to and including the next "\n", or to the end.
ReadChunk(rest) ==
    LET i == IndexOf(rest, NL)
    IN  IF i = 0 THEN rest ELSE SubSeq(rest, 1, i)

\* Mutant: a trailing "\r" is dropped whether or not a "\n" followed it.
StripEol_AnyCR(chunk) ==
    LET a == IF chunk # <<>> /\ chunk[Len(chunk)] = NL
             THEN SubSeq(chunk, 1, Len(chunk) - 1) ELSE chunk
    IN  IF a # <<>> /\ a[Len(a)] = CR THEN SubSeq(a, 1, Len(a) - 1) ELSE a

\* BufRead::lines: the line without its "\n" and a "\r" before it.
StripEol(chunk) ==
    IF chunk # <<>> /\ chunk[Len(chunk)] = NL
    THEN LET a == SubSeq(chunk, 1, Len(chunk) - 1)
         IN  IF a # <<>> /\ a[Len(a)] = CR THEN SubSeq(a, 1, Len(a) - 1) ELSE a
    ELSE chunk

ValidUtf8(chunk) == \A i \in 1..Len(chunk) : chunk[i] # BadByte

\* Mutant: a line that fails is skipped and the parse goes on.
RECURSIVE Collect_SkipBad(_, _)
Collect_SkipBad(rest, acc) ==
    IF rest = <<>> THEN Ok(acc)
    ELSE LET chunk == ReadChunk(rest)
             after == SubSeq(rest, Len(chunk) + 1, Len(rest))
             r == IF ValidUtf8(chunk) THEN ParseLine(StripEol(chunk))
                  ELSE Err("ReadLine", "InvalidData")
         IN  Collect_SkipBad(after, IF r.tag = "Err" THEN acc ELSE Append(acc, r.val))

\* lines().map(closure).collect::<Result<Vec<_>, _>>(): stop at the first Err.
RECURSIVE Collect(_, _)
Collect(rest, acc) ==
    IF rest = <<>> THEN Ok(acc)
    ELSE LET chunk == ReadChunk(rest)
             after == SubSeq(rest, Len(chunk) + 1, Len(rest))
         IN  IF ~ValidUtf8(chunk) THEN Err("ReadLine", "InvalidData")
             ELSE LET r == ParseLine(StripEol(chunk))
                  IN  IF r.tag = "Err" THEN r
                      ELSE Collect(after, Append(acc, r.val))

\* What the transport can do with a GET: deliver the body or fail.
TransportOutcomes == {"ok", "connect_error", "bad_status", "body_error"}

download_list(outcome, body) ==
    IF outcome # "ok" THEN Err("Request", outcome) ELSE Collect(body, <<>>)

\* Sequences over S of length at most n.
SeqsUpTo(S, n) == UNION {[1..k -> S] : k \in 0..n}

BodyAlphabet == {"1", "+", "a", Comma, NL, CR, BadByte}

Bodies == SeqsUpTo(BodyAlphabet, MaxBody)

\* A call that has been issued and has not returned yet.
Pending(o) == op = o /\ ret = NoResult

\* The `download` field of the ListsResponse passed in.
DownloadUrl == <<"u", "r", "l">>

\* A failed exchange delivers no body.
DownloadArgs ==
    [download : {DownloadUrl}, outcome : {"ok"}, body : Bodies]
        \cup [download : {DownloadUrl}, outcome : TransportOutcomes \ {"ok"},
              body : {<<>>}]

InitDownload ==
    /\ op = "download_list"
    /\ arg \in DownloadArgs
    /\ req = <<>>
    /\ ret = NoResult

DownloadList ==
    /\ Pending("download_list")
    /\ req' = arg.download
    /\ ret' = download_list(arg.outcome, arg.body)
    /\ UNCHANGED <<op, arg>>

NextDownload == DownloadList

SpecDownload == InitDownload /\ [][NextDownload]_vars

(***************************************************************************)
(* One record written as a line, "{rank},{domain}", and read back.         *)
(***************************************************************************)
EncodeLine(rank, domain) == ToDecimal(rank) \o <<Comma>> \o domain

SampleLimbs == {0, 1, 9, LimbMax}

\* Ranks below 2^64, and 2^64 itself.
RankSamples == [1..U64Limbs -> SampleLimbs] \cup {ZeroLimbs(U64Limbs) \o <<1>>}

DomainAlphabet == {"a", ".", "1", NL, CR}

Domains == SeqsUpTo(DomainAlphabet, MaxDomain)

InitRoundTrip ==
    /\ op = "round_trip"
    /\ arg \in [rank : RankSamples, domain : Domains]
    /\ req = <<>>
    /\ ret = NoResult

RoundTrip ==
    /\ Pending("round_trip")
    /\ ret' = download_list("ok", EncodeLine(arg.rank, arg.domain))
    /\ UNCHANGED <<op, arg, req>>

NextRoundTrip == RoundTrip

SpecRoundTrip == InitRoundTrip /\ [][NextRoundTrip]_vars

(***************************************************************************)
(* JSON values as the decoder hands them to a visitor: the kind of the     *)
(* value and its content.  A non-negative integer that fits 64 bits is a   *)
(* "u64", a negative one an "i64", any other number an "f64".              *)
(***************************************************************************)
JStr(s) == [kind |-> "str", text |-> s, num |-> <<>>, items |-> <<>>]

JU64(n) == [kind |-> "u64", text |-> <<>>, num |-> n, items |-> <<>>]

JOther(k) == [kind |-> k, text |-> <<>>, num |-> <<>>, items |-> <<>>]

\* An array of strings.
JSeq(ss) == [kind |-> "seq", text |-> <<>>, num |-> <<>>, items |-> ss]

JNull == JOther("null")

\* A key the payload does not hold.
Absent == JOther("absent")

OtherKinds == {"null", "bool", "i64", "f64", "seq", "map"}

(***************************************************************************)
(* ListPrefix.                                                             *)
(***************************************************************************)
FullText == <<"f", "u", "l", "l">>

Full == [variant |-> "Full", n |-> <<>>]

Length(n) == [variant |-> "Length", n |-> n]

ListPrefix_visit_str(value) ==
    IF value = FullText THEN Ok(Full)
    ELSE LET p == ParseUnsigned(value, U32Limbs)
         IN  IF p.ok THEN Ok(Length(p.val)) ELSE Err("custom", p.kind)

ListPrefix_visit_u64(value) == Ok(Length(AsU32(value)))

\* deserialize_any: the visitor method of the value's kind; the visitor
\* defines visit_str and visit_u64 only.
ListPrefix_deserialize(j) ==
    CASE j.kind = "str" -> ListPrefix_visit_str(j.text)
      [] j.kind = "u64" -> ListPrefix_visit_u64(j.num)
      [] OTHER -> Err("invalid_type", j.kind)

U64Samples == [1..U64Limbs -> SampleLimbs]

PrefixAlphabet == {"0", "1", "7", "+", "-", "a"}

PrefixTexts ==
    SeqsUpTo(PrefixAlphabet, MaxStr)
        \cup {FullText, <<"a", "b", "c">>, <<"1", "0", "0">>, <<"F", "u", "l", "l">>}
        \cup {ToDecimal(n) : n \in U64Samples}

PrefixValues ==
    {JStr(t) : t \in PrefixTexts}
        \cup {JU64(n) : n \in U64Samples}
        \cup {JOther(k) : k \in OtherKinds}

InitPrefix ==
    /\ op = "list_prefix"
    /\ arg \in PrefixValues
    /\ req = <<>>
    /\ ret = NoResult

DecodeListPrefix ==
    /\ Pending("list_prefix")
    /\ ret' = ListPrefix_deserialize(arg)
    /\ UNCHANGED <<op, arg, req>>

NextPrefix == DecodeListPrefix

SpecPrefix == InitPrefix /\ [][NextPrefix]_vars

(***************************************************************************)
(* CruxMonth.                                                              *)
(***************************************************************************)
LatestText == <<"l", "a", "t", "e", "s", "t">>

\* Characters that take two bytes in UTF-8: a letter and a non-ASCII digit.
EAcute == "e-acute"
ArabicThree == "arabic-indic-three"

Utf8Len(c) == IF c \in {EAcute, ArabicThree} THEN 2 ELSE 1

\* str::len(): the length in bytes.
RECURSIVE ByteLen(_)
ByteLen(s) == IF s = <<>> THEN 0 ELSE Utf8Len(Head(s)) + ByteLen(Tail(s))

\* char::is_digit(10).
IsDigit10(c) == c \in DigitSet

Latest == [variant |-> "Latest", month |-> <<>>]

Specific(m) == [variant |-> "Specific", month |-> m]

\* Mutant: the length is not checked.
CruxMonth_visit_str_AnyLength(value) ==
    IF value = LatestText THEN Ok(Latest)
    ELSE IF \A i \in 1..Len(value) : IsDigit10(value[i])
         THEN Ok(Specific(value))
         ELSE Err("custom", "Expected YYYYMM format or latest")

CruxMonth_visit_str(value) ==
    IF value = LatestText THEN Ok(Latest)
    ELSE IF ByteLen(value) = 6 /\ \A i \in 1..Len(value) : IsDigit10(value[i])
         THEN Ok(Specific(value))
         ELSE Err("custom", "Expected YYYYMM format or latest")

\* deserialize_str: a value that is not a string is an error.
CruxMonth_deserialize(j) ==
    IF j.kind = "str" THEN CruxMonth_visit_str(j.text)
    ELSE Err("invalid_type", j.kind)

MonthAlphabet == {"1", "3", "a", EAcute, ArabicThree}

MonthTexts ==
    SeqsUpTo(MonthAlphabet, MaxMonth)
        \cup {LatestText, LatestText \o <<"2">>, <<"2", "0", "2", "5">>,
              <<"2", "0", "2", "5", "0", "3">>, <<"2", "0", "2", "5", "1", "3">>}

MonthValues ==
    {JStr(t) : t \in MonthTexts}
        \cup {JU64(n) : n \in {<<3, 0, 0, 0>>}}
        \cup {JOther(k) : k \in OtherKinds}

InitMonth ==
    /\ op = "crux_month"
    /\ arg \in MonthValues
    /\ req = <<>>
    /\ ret = NoResult

DecodeCruxMonth ==
    /\ Pending("crux_month")
    /\ ret' = CruxMonth_deserialize(arg)
    /\ UNCHANGED <<op, arg, req>>

NextMonth == DecodeCruxMonth

SpecMonth == InitMonth /\ [][NextMonth]_vars

(***************************************************************************)
(* Configuration.  A payload maps each key to its JSON value, or to Absent;*)
(* keys are visited in the order of the struct's fields.                   *)
(***************************************************************************)
Fields ==
    <<"providers", "startDate", "endDate", "combinationMethod", "listPrefix",
      "filterPLD", "inclusionDays", "inclusionDaysValue", "inclusionLists",
      "inclusionListsValue", "filterTLD", "filterTLDValue",
      "filterOrganization", "filterSubdomain", "filterSubdomainValue",
      "filterSafeBrowsing", "filterCRUX", "filterCRUXMonth", "filterCRUXType",
      "filterCRUXValue">>

FieldSet == {Fields[i] : i \in 1..Len(Fields)}

FieldIndex(f) == CHOOSE i \in 1..Len(Fields) : Fields[i] = f

\* The fields of type ToggleOption.
ToggleFields ==
    {"filterPLD", "inclusionDays", "inclusionLists", "filterOrganization",
     "filterSubdomain", "filterSafeBrowsing", "filterCRUX"}

\* The fields of an Option type.
OptionFields ==
    {"inclusionDaysValue", "inclusionListsValue", "filterTLD", "filterTLDValue",
     "filterSubdomainValue", "filterCRUXMonth", "filterCRUXType",
     "filterCRUXValue"}

\* The fields that carry #[serde(default)].
DefaultFields == (ToggleFields \ {"filterPLD"}) \cup OptionFields

ProviderNames ==
    {<<"c", "r", "u", "x">>, <<"m", "a", "j", "e", "s", "t", "i", "c">>, <<"r", "a", "d", "a", "r">>, <<"u", "m", "b", "r", "e", "l", "l", "a">>, <<"a", "l", "e", "x", "a">>, <<"q", "u", "a", "n", "t", "c", "a", "s", "t">>, <<"f", "a", "r", "s", "i", "g", "h", "t">>}

CombinationNames == {<<"d", "o", "w", "d", "a", "l", "l">>, <<"b", "o", "r", "d", "a">>}

OnText == <<"o", "n">>
OffText == <<"o", "f", "f">>

FilterTldNames == {<<"i", "n", "c", "l", "u", "d", "e">>, <<"f", "a", "l", "s", "e">>}

CruxTypeNames == {<<"g", "l", "o", "b", "a", "l">>, <<"c", "o", "u", "n", "t", "r", "y">>, <<"r", "e", "g", "i", "o", "n">>, <<"s", "u", "b", "r", "e", "g", "i", "o", "n">>}

None == [some |-> FALSE, v |-> <<>>]

Some(x) == [some |-> TRUE, v |-> x]

\* Mutant: the default toggle is On.
ToggleOption_default_On == "On"

\* impl Default for ToggleOption.
ToggleOption_default == "Off"

\* A unit-variant enum with lowercase names, decoded from a string.
DecodeEnum(names, j) ==
    IF j.kind # "str" THEN Err("invalid_type", j.kind)
    ELSE IF j.text \notin names THEN Err("unknown_variant", "None")
    ELSE Ok(j.text)

ToggleOption_deserialize(j) ==
    LET e == DecodeEnum({OnText, OffText}, j)
    IN  IF e.tag = "Err" THEN e ELSE Ok(IF e.val = OnText THEN "On" ELSE "Off")

DecodeString(j) ==
    IF j.kind = "str" THEN Ok(j.text) ELSE Err("invalid_type", j.kind)

DecodeStrings(j) ==
    IF j.kind = "seq" THEN Ok(j.items) ELSE Err("invalid_type", j.kind)

DecodeProviders(j) ==
    IF j.kind # "seq" THEN Err("invalid_type", j.kind)
    ELSE IF \E i \in 1..Len(j.items) : j.items[i] \notin ProviderNames
         THEN Err("unknown_variant", "None")
         ELSE Ok(j.items)

\* u32 from a JSON number: a non-negative integer that fits 32 bits.
DecodeU32(j) ==
    IF j.kind # "u64" THEN Err("invalid_type", j.kind)
    ELSE IF AsU32(j.num) \o ZeroLimbs(U64Limbs - U32Limbs) # j.num
         THEN Err("invalid_value", "None")
         ELSE Ok(AsU32(j.num))

\* The decoder of the type inside the Option, or of the field's own type.
DecodeInner(f, j) ==
    CASE f = "providers" -> DecodeProviders(j)
      [] f \in {"startDate", "endDate"} -> DecodeString(j)
      [] f = "combinationMethod" -> DecodeEnum(CombinationNames, j)
      [] f = "listPrefix" -> ListPrefix_deserialize(j)
      [] f \in ToggleFields -> ToggleOption_deserialize(j)
      [] f \in {"inclusionDaysValue", "inclusionListsValue"} -> DecodeU32(j)
      [] f = "filterTLD" -> DecodeEnum(FilterTldNames, j)
      [] f \in {"filterTLDValue", "filterSubdomainValue", "filterCRUXValue"}
            -> DecodeStrings(j)
      [] f = "filterCRUXMonth" -> CruxMonth_deserialize(j)
      [] f = "filterCRUXType" -> DecodeEnum(CruxTypeNames, j)

\* Option<T>: null is None, anything else is Some of T.
DecodeField(f, j) ==
    IF f \in OptionFields
    THEN IF j.kind = "null" THEN Ok(None)
         ELSE LET r == DecodeInner(f, j)
              IN  IF r.tag = "Err" THEN r ELSE Ok(Some(r.val))
    ELSE DecodeInner(f, j)

\* The value of a field whose key the payload does not hold.
FieldDefault(f) == IF f \in ToggleFields THEN ToggleOption_default ELSE None

FirstField(S) == CHOOSE f \in S : \A g \in S : FieldIndex(f) <= FieldIndex(g)

\* The derived visitor: each key present is decoded as it is met, the first
\* failure ending the decode; then each field not met takes its default, or
\* is reported missing.
Configuration_deserialize(payload) ==
    LET present == {f \in FieldSet : payload[f] # Absent}
        failed == {f \in present : DecodeField(f, payload[f]).tag = "Err"}
        missing == (FieldSet \ present) \ DefaultFields
    IN  IF failed # {}
        THEN LET e == DecodeField(FirstField(failed), payload[FirstField(failed)])
             IN  Err(e.err, FirstField(failed))
        ELSE IF missing # {} THEN Err("missing_field", FirstField(missing))
        ELSE Ok([f \in FieldSet |->
                    IF f \in present THEN DecodeField(f, payload[f]).val
                    ELSE FieldDefault(f)])

\* A well-formed value of each field.
GoodValue(f) ==
    CASE f = "providers" -> JSeq(<<<<"c", "r", "u", "x">>, <<"r", "a", "d", "a", "r">>>>)
      [] f = "startDate" -> JStr(<<"2", "0", "2", "5", "-", "0", "3", "-", "0", "1">>)
      [] f = "endDate" -> JStr(<<"2", "0", "2", "5", "-", "0", "3", "-", "3", "0">>)
      [] f = "combinationMethod" -> JStr(<<"d", "o", "w", "d", "a", "l", "l">>)
      [] f = "listPrefix" -> JStr(FullText)
      [] f \in ToggleFields -> JStr(OnText)
      [] f \in {"inclusionDaysValue", "inclusionListsValue"} -> JU64(<<9, 0, 0, 0>>)
      [] f = "filterTLD" -> JStr(<<"i", "n", "c", "l", "u", "d", "e">>)
      [] f \in {"filterTLDValue", "filterSubdomainValue", "filterCRUXValue"}
            -> JSeq(<<<<"b", "e">>>>)
      [] f = "filterCRUXMonth" -> JStr(LatestText)
      [] f = "filterCRUXType" -> JStr(<<"g", "l", "o", "b", "a", "l">>)

\* The keys other than the toggles: all optional ones absent, all present, or
\* one present; or one thing wrong: a required key dropped, a toggle with a
\* value that is no toggle, an optional key set to null.
Shapes ==
    [values : {{}, OptionFields} \cup {{f} : f \in OptionFields},
     dropped : {"none"}, spoiled : {"none"}, nulled : {"none"}]
    \cup [values : {{}}, dropped : FieldSet \ (ToggleFields \cup DefaultFields),
          spoiled : {"none"}, nulled : {"none"}]
    \cup [values : {{}}, dropped : {"none"}, spoiled : ToggleFields,
          nulled : {"none"}]
    \cup [values : {{}}, dropped : {"none"}, spoiled : {"none"},
          nulled : OptionFields]

ToggleWire == {Absent, JStr(OnText), JStr(OffText)}

Payload(toggles, shape) ==
    [f \in FieldSet |->
        IF f = shape.spoiled THEN JStr(<<"y", "e", "s">>)
        ELSE IF f = shape.nulled THEN JNull
        ELSE IF f = shape.dropped THEN Absent
        ELSE IF f \in ToggleFields THEN toggles[f]
        ELSE IF f \in OptionFields /\ f \notin shape.values THEN Absent
        ELSE GoodValue(f)]

Payloads ==
    {Payload(t, s) : t \in [ToggleFields -> ToggleWire], s \in Shapes}

InitConfiguration ==
    /\ op = "configuration"
    /\ arg \in Payloads
    /\ req = <<>>
    /\ ret = NoResult

DecodeConfiguration ==
    /\ Pending("configuration")
    /\ ret' = Configuration_deserialize(arg)
    /\ UNCHANGED <<op, arg, req>>

NextConfiguration == DecodeConfiguration

SpecConfiguration == InitConfiguration /\ [][NextConfiguration]_vars

(***************************************************************************)
(* list_date.                                                              *)
(***************************************************************************)
API_BASE ==
    <<"h", "t", "t", "p", "s", ":", "/", "/", "t", "r", "a", "n", "c",
      "o", "-", "l", "i", "s", "t", ".", "e", "u", "/", "a", "p", "i">>

ListsDatePath == <<"/", "l", "i", "s", "t", "s", "/", "d", "a", "t", "e", "/">>

SubdomainsQuery == <<"?", "s", "u", "b", "d", "o", "m", "a", "i", "n", "s", "=">>

\* Display of a bool.
BoolText(b) == IF b THEN <<"t", "r", "u", "e">> ELSE <<"f", "a", "l", "s", "e">>

\* Mutant: the width is ignored.
PadZero_NoPadding(digits, width) == digits

\* {:0width}: zeros in front, up to the width; longer text is left as it is.
PadZero(digits, width) ==
    IF Len(digits) >= width THEN digits
    ELSE [i \in 1..(width - Len(digits)) |-> "0"] \o digits

\* The format! of list_date; year is a u16, month and day are u8.
list_date_url(year, month, day, subdomains) ==
    API_BASE \o ListsDatePath
        \o PadZero(ToDecimal(<<year>>), 4)
        \o PadZero(ToDecimal(<<month>>), 2)
        \o PadZero(ToDecimal(<<day>>), 2)
        \o (IF subdomains.some THEN SubdomainsQuery \o BoolText(subdomains.v)
            ELSE <<>>)

\* send, error_for_status, json: the response, or the one error kind.
FetchOutcomes == TransportOutcomes \cup {"decode_error"}

Fetched(outcome) ==
    IF outcome = "ok" THEN Ok(<<"ListsResponse">>) ELSE Err("Request", outcome)

Years == {0, 7, 999, 2025, 9999, 10000, 65535}

MonthsDays == {0, 4, 7, 9, 10, 12, 99, 100, 255}

\* Option<bool>.
NoBool == [some |-> FALSE, v |-> FALSE]

SomeBool(b) == [some |-> TRUE, v |-> b]

InitListDate ==
    /\ op = "list_date"
    /\ arg \in [year : Years, month : MonthsDays, day : MonthsDays,
                subdomains : {NoBool, SomeBool(TRUE), SomeBool(FALSE)},
                outcome : FetchOutcomes]
    /\ req = <<>>
    /\ ret = NoResult

ListDate ==
    /\ Pending("list_date")
    /\ req' = list_date_url(arg.year, arg.month, arg.day, arg.subdomains)
    /\ ret' = Fetched(arg.outcome)
    /\ UNCHANGED <<op, arg>>

NextListDate == ListDate

SpecListDate == InitListDate /\ [][NextListDate]_vars

(***************************************************************************)
(* Properties of download_list.  The lines, tokens and numbers of a body   *)
(* are described here by position, independently of the parser above.      *)
(***************************************************************************)
Delivered == op = "download_list" /\ ret.tag # "None" /\ arg.outcome = "ok"

Positions(s, c) == {i \in 1..Len(s) : s[i] = c}

\* The k-th smallest element of a set of integers.
KthOf(S, k) == CHOOSE x \in S : Cardinality({y \in S : y < x}) = k - 1

NumLines(b) ==
    Cardinality(Positions(b, NL))
        + (IF b # <<>> /\ b[Len(b)] # NL THEN 1 ELSE 0)

LineStart(b, k) == IF k = 1 THEN 1 ELSE KthOf(Positions(b, NL), k - 1) + 1

Terminated(b, k) == k <= Cardinality(Positions(b, NL))

LineStop(b, k) ==
    IF Terminated(b, k) THEN KthOf(Positions(b, NL), k) - 1 ELSE Len(b)

\* The text of line k: without its line feed and one carriage return before it.
TextLine(b, k) ==
    LET a == LineStart(b, k)
        z == LineStop(b, k)
    IN  IF Terminated(b, k) /\ z >= a /\ b[z] = CR
        THEN SubSeq(b, a, z - 1) ELSE SubSeq(b, a, z)

\* The n-th comma-separated token of a line, for n up to the number of commas + 1.
Token(l, n) ==
    LET cs == Positions(l, Comma)
        a == IF n = 1 THEN 1 ELSE KthOf(cs, n - 1) + 1
        z == IF n <= Cardinality(cs) THEN KthOf(cs, n) - 1 ELSE Len(l)
    IN  SubSeq(l, a, z)

RECURSIVE StripZeros(_)
StripZeros(d) ==
    IF Len(d) > 1 /\ Head(d) = "0" THEN StripZeros(Tail(d)) ELSE d

\* d <= e for digit strings without leading zeros.
DecLeq(d, e) ==
    \/ Len(d) < Len(e)
    \/ /\ Len(d) = Len(e)
       /\ \/ d = e
          \/ \E i \in 1..Len(d) :
                /\ DigitVal(d[i]) < DigitVal(e[i])
                /\ \A j \in 1..(i - 1) : d[j] = e[j]

U64MaxDec ==
    <<"1", "8", "4", "4", "6", "7", "4", "4", "0", "7",
      "3", "7", "0", "9", "5", "5", "1", "6", "1", "5">>

U32MaxDec == <<"4", "2", "9", "4", "9", "6", "7", "2", "9", "5">>

Unsigned(t) == IF t # <<>> /\ Head(t) = "+" THEN Tail(t) ELSE t

AllDigits(t) == t # <<>> /\ \A i \in 1..Len(t) : t[i] \in DigitSet

\* Text that denotes an unsigned integer no larger than max: digits, a "+" allowed.
IsNumberText(t, max) ==
    AllDigits(Unsigned(t)) /\ DecLeq(StripZeros(Unsigned(t)), max)

IsRankText(t) == IsNumberText(t, U64MaxDec)

\* The error a line produces on its own (Ok for a well-formed line).
LineResult(b, k) ==
    IF \E i \in LineStart(b, k)..LineStop(b, k) : b[i] = BadByte
    THEN Err("ReadLine", "InvalidData")
    ELSE ParseLine(TextLine(b, k))

Malformed(b, k) == LineResult(b, k).tag = "Err"

FirstMalformed(b) ==
    CHOOSE k \in 1..NumLines(b) :
        Malformed(b, k) /\ \A j \in 1..(k - 1) : ~Malformed(b, j)

\* C2: when some line of the delivered body is malformed, download_list returns
\* an error, the error is that of the first malformed line in file order, and
\* no record of an earlier line is returned.
C2_FailFast ==
    (Delivered /\ \E k \in 1..NumLines(arg.body) : Malformed(arg.body, k))
        => /\ ret.tag = "Err"
           /\ ret.val = <<>>
           /\ ret = LineResult(arg.body, FirstMalformed(arg.body))

\* A body whose first malformed line follows a well-formed one and is followed
\* by a line malformed in another way.
C2_Witness ==
    /\ Delivered
    /\ NumLines(arg.body) >= 3
    /\ ~Malformed(arg.body, 1)
    /\ Malformed(arg.body, 2)
    /\ Malformed(arg.body, 3)
    /\ LineResult(arg.body, 2) # LineResult(arg.body, 3)
    /\ ret.tag = "Err"

\* C3: on success download_list returns one record per line of the body, in
\* file order; the rank is the number the first token denotes, the domain is
\* the second token, and further tokens change nothing.
C3_OneRecordPerLine ==
    (Delivered /\ ret.tag = "Ok")
        => /\ Len(ret.val) = NumLines(arg.body)
           /\ \A k \in 1..NumLines(arg.body) :
                LET l == TextLine(arg.body, k)
                IN  /\ Cardinality(Positions(l, Comma)) >= 1
                    /\ IsRankText(Token(l, 1))
                    /\ ToDecimal(ret.val[k].rank) = StripZeros(Unsigned(Token(l, 1)))
                    /\ ret.val[k].domain = Token(l, 2)

\* A successful parse of two lines, one of them with a third token.
C3_Witness ==
    /\ Delivered
    /\ ret.tag = "Ok"
    /\ Len(ret.val) = 2
    /\ \E k \in 1..NumLines(arg.body) :
          Cardinality(Positions(TextLine(arg.body, k), Comma)) >= 2

OneLine(b) == b # <<>> /\ NumLines(b) = 1 /\ \A i \in 1..Len(b) : b[i] # BadByte

\* C4 (as claimed): a line with nothing before its first comma yields
\* MissingRank, and a line whose first token is present but not a number
\* yields InvalidRank.
C4_MissingVersusInvalid ==
    (Delivered /\ OneLine(arg.body))
        => LET l == TextLine(arg.body, 1)
           IN  /\ (l # <<>> /\ Head(l) = Comma)
                    => (ret.tag = "Err" /\ ret.err = "MissingRank")
               /\ (Token(l, 1) # <<>> /\ ~IsRankText(Token(l, 1)))
                    => (ret.tag = "Err" /\ ret.err = "InvalidRank")

\* C5 (as claimed): every line without any comma yields MissingDomain.
C5_NoCommaMissingDomain ==
    (Delivered /\ OneLine(arg.body)
        /\ Positions(TextLine(arg.body, 1), Comma) = {})
        => (ret.tag = "Err" /\ ret.err = "MissingDomain")

\* C5 (amended): a line without any comma whose text denotes a rank yields
\* MissingDomain.
C5_RankOnlyMissingDomain ==
    ( /\ Delivered
      /\ NumLines(arg.body) >= 1
      /\ \A i \in LineStart(arg.body, 1)..LineStop(arg.body, 1) :
            arg.body[i] \notin {Comma, BadByte}
      /\ IsRankText(TextLine(arg.body, 1)) )
        => (ret.tag = "Err" /\ ret.err = "MissingDomain")

\* A line that is a rank and nothing else.
C5_Witness ==
    /\ Delivered
    /\ NumLines(arg.body) >= 1
    /\ Positions(TextLine(arg.body, 1), Comma) = {}
    /\ IsRankText(TextLine(arg.body, 1))
    /\ ret.err = "MissingDomain"

(***************************************************************************)
(* Properties of the round trip.                                           *)
(***************************************************************************)
RECURSIVE TrimLimbs(_)
TrimLimbs(v) ==
    IF v # <<>> /\ v[Len(v)] = 0 THEN TrimLimbs(SubSeq(v, 1, Len(v) - 1)) ELSE v

SameNumber(a, b) == TrimLimbs(a) = TrimLimbs(b)

Returned(o) == op = o /\ ret.tag # "None"

ReadBack ==
    /\ ret.tag = "Ok"
    /\ Len(ret.val) = 1
    /\ SameNumber(ret.val[1].rank, arg.rank)
    /\ ret.val[1].domain = arg.domain

\* C1 (as claimed): every pair of a non-negative rank and a domain without a
\* comma, written as "{rank},{domain}" and parsed, is read back unchanged.
\* The rank is taken to be one a RankedDomain can hold, below 2^64.
C1_RoundTrip ==
    (Returned("round_trip") /\ Len(TrimLimbs(arg.rank)) <= U64Limbs)
        => ReadBack

\* C1 (amended): every pair of a rank below 2^64 and a domain with neither a
\* comma nor a line feed, written as "{rank},{domain}" and parsed, is read
\* back unchanged.
C1_RoundTripOneLine ==
    ( /\ Returned("round_trip")
      /\ Len(TrimLimbs(arg.rank)) <= U64Limbs
      /\ Positions(arg.domain, NL) = {} )
        => ReadBack

\* A rank above 2^32 and a domain ending in a carriage return, read back.
C1_Witness ==
    /\ Returned("round_trip")
    /\ arg.rank[U64Limbs] # 0
    /\ Len(arg.rank) = U64Limbs
    /\ arg.domain # <<>>
    /\ arg.domain[Len(arg.domain)] = CR
    /\ ReadBack

(***************************************************************************)
(* Properties of the ListPrefix decoder.                                   *)
(***************************************************************************)
\* C6 (as claimed): "full" decodes to Full; an integer N and a numeric string
\* denoting N decode to Length(N); every other string is an error.
C6_ListPrefixDecoding ==
    Returned("list_prefix") =>
        /\ (arg = JStr(FullText)) => ret = Ok(Full)
        /\ (arg.kind = "u64") =>
              /\ ret.tag = "Ok"
              /\ ret.val.variant = "Length"
              /\ SameNumber(ret.val.n, arg.num)
        /\ (arg.kind = "str" /\ IsNumberText(arg.text, U32MaxDec)) =>
              /\ ret.tag = "Ok"
              /\ ret.val.variant = "Length"
              /\ ToDecimal(ret.val.n) = StripZeros(Unsigned(arg.text))
        /\ (arg.kind = "str" /\ arg.text # FullText /\ ~AllDigits(Unsigned(arg.text)))
              => ret.tag = "Err"

\* C10 (as claimed): an integer N below 2^64 and the string of N's decimal
\* digits decode to the same outcome, and an outcome Length(M) has M = N.
C10_SameOutcomeNoWrap ==
    (Returned("list_prefix") /\ arg.kind = "u64") =>
        LET viaText == ListPrefix_deserialize(JStr(ToDecimal(arg.num)))
        IN  /\ ret.tag = viaText.tag
            /\ ret.val = viaText.val
            /\ (ret.tag = "Ok" /\ ret.val.variant = "Length")
                  => SameNumber(ret.val.n, arg.num)

(***************************************************************************)
(* Properties of the CruxMonth decoder.                                    *)
(***************************************************************************)
SixDigits(s) == Len(s) = 6 /\ \A i \in 1..6 : s[i] \in DigitSet

\* C7: "latest" decodes to Latest; a string of exactly six ASCII digits
\* decodes to Specific with that string unchanged, whatever month it names;
\* every other string is an error.
C7_CruxMonthDecoding ==
    (Returned("crux_month") /\ arg.kind = "str") =>
        ret = (IF arg.text = LatestText THEN Ok(Latest)
               ELSE IF SixDigits(arg.text) THEN Ok(Specific(arg.text))
               ELSE Err("custom", "Expected YYYYMM format or latest"))

\* Month 13 is decoded as it stands.
C7_Witness ==
    /\ Returned("crux_month")
    /\ arg.kind = "str"
    /\ SixDigits(arg.text)
    /\ SubSeq(arg.text, 5, 6) = <<"1", "3">>
    /\ ret = Ok(Specific(arg.text))

(***************************************************************************)
(* Properties of the Configuration decoder.                                *)
(***************************************************************************)
\* The values a key may hold for its field to decode.
WellFormed(f, j) ==
    CASE f \in ToggleFields -> j \in {JStr(OnText), JStr(OffText)}
      [] f \in OptionFields -> j \in {JNull, GoodValue(f)}
      [] OTHER -> j = GoodValue(f)

\* Nothing is wrong with the payload but, maybe, that it lacks some of `may`.
SoundBut(payload, may) ==
    \A f \in FieldSet :
        IF payload[f] = Absent THEN f \in may ELSE WellFormed(f, payload[f])

DefaultsApplied(payload, fields) ==
    /\ ret.tag = "Ok"
    /\ \A f \in fields :
          payload[f] = Absent =>
              ret.val[f] = (IF f \in ToggleFields THEN "Off" ELSE None)

\* C8 (as claimed): each toggle absent from the payload decodes to Off, each
\* absent _value field to None, and an absent toggle never fails the decode.
C8_AbsentToggleIsOff ==
    (Returned("configuration") /\ SoundBut(arg, ToggleFields \cup OptionFields))
        => DefaultsApplied(arg, ToggleFields \cup OptionFields)

\* C8 (amended): each toggle other than filterPLD decodes to Off when absent,
\* each absent _value field to None, and none of these absences fails the
\* decode; filterPLD is required, and a payload without it fails to decode.
C8_AbsentDefaultedToggleIsOff ==
    /\ (Returned("configuration") /\ SoundBut(arg, DefaultFields))
          => DefaultsApplied(arg, DefaultFields)
    /\ (Returned("configuration") /\ arg["filterPLD"] = Absent)
          => ret.tag = "Err"

\* Every defaulted toggle and every _value field absent, and decoded.
C8_Witness ==
    /\ Returned("configuration")
    /\ \A f \in DefaultFields : arg[f] = Absent
    /\ SoundBut(arg, DefaultFields)
    /\ ret.tag = "Ok"
    /\ ret.val["filterCRUX"] = "Off"
    /\ ret.val["filterPLD"] = "On"

\* A payload without filterPLD, refused.
C8_WitnessRequired ==
    /\ Returned("configuration")
    /\ SoundBut(arg, {"filterPLD"})
    /\ arg["filterPLD"] = Absent
    /\ ret = Err("missing_field", "filterPLD")

(***************************************************************************)
(* Properties of list_date.                                                *)
(***************************************************************************)
RECURSIVE DecValue(_)
DecValue(d) ==
    IF d = <<>> THEN 0
    ELSE DecValue(SubSeq(d, 1, Len(d) - 1)) * 10 + DigitVal(d[Len(d)])

\* d is n in decimal, with zeros in front exactly when n has fewer than w digits.
IsPadded(d, n, w) ==
    /\ AllDigits(d)
    /\ DecValue(d) = n
    /\ Len(d) = w \/ (Len(d) > w /\ Head(d) # "0")

ExpectedQuery(subdomains) ==
    IF subdomains = NoBool THEN <<>>
    ELSE IF subdomains = SomeBool(TRUE)
         THEN SubdomainsQuery \o <<"t", "r", "u", "e">>
         ELSE SubdomainsQuery \o <<"f", "a", "l", "s", "e">>

====
